---------------------------- MODULE Spec2Model ----------------------------
(***************************************************************************)
(* Model of src/src/objects-tasks.js: the CSSSelector class, the           *)
(* cssSelectorBuilder factory object and its combine operation.            *)
(*                                                                         *)
(* A JavaScript string is a sequence of one-character strings, so that     *)
(* concatenation, template literals and Array.prototype.join are computed  *)
(* and not assumed.  A value that may be null is a tagged record.          *)
(***************************************************************************)
EXTENDS Naturals, Sequences, FiniteSets, TLC

VARIABLES
    heap,     \* the CSSSelector instances created so far, by reference (index)
    origin,   \* observer: how each instance was created ("factory", "combine")
    log,      \* observer: per instance, the accepted appends in call order
    last,     \* observer: the most recent call, its arguments and its outcome
    input,    \* the arguments of the call of a standalone function, as passed
    pc,       \* where that call stands: "idle", "run" or "done"
    acc,      \* the memory that call works on
    result    \* what that call returned

\* The state of the selector builder, and that of a standalone function call.
builderVars == <<heap, origin, log, last>>

callVars == <<input, pc, acc, result>>

vars == <<heap, origin, log, last, input, pc, acc, result>>

(***************************************************************************)
(* Bound of the model: the calls that change the heap (a factory call, an  *)
(* accepted append, a combine) in one run.  Rejected appends and           *)
(* stringify calls are not counted.                                        *)
(***************************************************************************)
MaxCalls == 3

\* The strings passed to element, id and pseudoElement: the empty string too.
Values == { <<>>, <<"a">> }

\* The strings passed to class, attr and pseudoClass.
ListValues == { <<"a">> }

\* The strings passed as combinator.
Combinators == { <<">">> }

(***************************************************************************)
(* JavaScript values.                                                      *)
(***************************************************************************)
Null == [tag |-> "null", str |-> <<>>]

Str(s) == [tag |-> "string", str |-> s]

\* ToBoolean: null and the empty string are falsy.
Truthy(v) == v.tag = "string" /\ v.str # <<>>

\* toString, as a template literal applies it.
toString(v) == IF v.tag = "null" THEN <<"n", "u", "l", "l">> ELSE v.str

RECURSIVE join(_)
\* Array.prototype.join(''), on an array of strings.
join(arr) == IF arr = <<>> THEN <<>> ELSE Head(arr) \o join(Tail(arr))

\* Array.prototype.map with the template literal pre + x + post.
map(arr, pre, post) == [k \in DOMAIN arr |-> pre \o arr[k] \o post]

(***************************************************************************)
(* class CSSSelector                                                       *)
(***************************************************************************)
orderMap ==
    [element |-> 1, id |-> 2, classes |-> 3, attributes |-> 4,
     pseudoClasses |-> 5, pseudoElements |-> 6]

constructor ==
    [parts |-> [element |-> Null, id |-> Null, classes |-> <<>>, attributes |-> <<>>,
                pseudoClasses |-> <<>>, pseudoElements |-> <<>>],
     order |-> <<>>]

\* The outcome of a method call: the error thrown ("none" when it returns) and
\* the instance as the call leaves it.
Return(self) == [thrown |-> "none", self |-> self]

Throw(kind, self) == [thrown |-> kind, self |-> self]

\* Mutant of checkOrder: the comparison is <= instead of <.
checkOrderStrict(self, part) ==
    IF Len(self.order) > 0 /\ orderMap[part] <= orderMap[self.order[Len(self.order)]]
    THEN Throw("order", self)
    ELSE Return([self EXCEPT !.order = Append(@, part)])

\* Mutant of checkOrder: the part is pushed before the comparison.
checkOrderPushFirst(self, part) ==
    LET pushed == [self EXCEPT !.order = Append(@, part)]
    IN  IF Len(self.order) > 0 /\ orderMap[part] < orderMap[self.order[Len(self.order)]]
        THEN Throw("order", pushed)
        ELSE Return(pushed)

\* Mutant of checkOrder: the part is compared with the first entry of the
\* history instead of the last.
checkOrderFirst(self, part) ==
    IF Len(self.order) > 0 /\ orderMap[part] < orderMap[self.order[1]]
    THEN Throw("order", self)
    ELSE Return([self EXCEPT !.order = Append(@, part)])

checkOrder(self, part) ==
    IF Len(self.order) > 0 /\ orderMap[part] < orderMap[self.order[Len(self.order)]]
    THEN Throw("order", self)
    ELSE Return([self EXCEPT !.order = Append(@, part)])

element(self, value) ==
    IF Truthy(self.parts.element)
    THEN Throw("duplicate", self)
    ELSE LET r == checkOrder(self, "element")
         IN  IF r.thrown # "none" THEN r
             ELSE Return([r.self EXCEPT !.parts.element = Str(value)])

id(self, value) ==
    IF Truthy(self.parts.id)
    THEN Throw("duplicate", self)
    ELSE LET r == checkOrder(self, "id")
         IN  IF r.thrown # "none" THEN r
             ELSE Return([r.self EXCEPT !.parts.id = Str(value)])

class(self, value) ==
    LET r == checkOrder(self, "classes")
    IN  IF r.thrown # "none" THEN r
        ELSE Return([r.self EXCEPT !.parts.classes = Append(@, value)])

attr(self, value) ==
    LET r == checkOrder(self, "attributes")
    IN  IF r.thrown # "none" THEN r
        ELSE Return([r.self EXCEPT !.parts.attributes = Append(@, value)])

pseudoClass(self, value) ==
    LET r == checkOrder(self, "pseudoClasses")
    IN  IF r.thrown # "none" THEN r
        ELSE Return([r.self EXCEPT !.parts.pseudoClasses = Append(@, value)])

\* Mutant of pseudoElement: the duplicate check tests the first entry's
\* truthiness, as element and id do, instead of the array's length.
pseudoElementTruthy(self, value) ==
    IF Len(self.parts.pseudoElements) > 0 /\ self.parts.pseudoElements[1] # <<>>
    THEN Throw("duplicate", self)
    ELSE LET r == checkOrder(self, "pseudoElements")
         IN  IF r.thrown # "none" THEN r
             ELSE Return([r.self EXCEPT !.parts.pseudoElements = Append(@, value)])

pseudoElement(self, value) ==
    IF Len(self.parts.pseudoElements) > 0
    THEN Throw("duplicate", self)
    ELSE LET r == checkOrder(self, "pseudoElements")
         IN  IF r.thrown # "none" THEN r
             ELSE Return([r.self EXCEPT !.parts.pseudoElements = Append(@, value)])

\* Mutant of stringify: the classes are prefixed in place (forEach with an
\* assignment) instead of mapped into the local array.
stringifyInPlace(self) ==
    LET dotted == map(self.parts.classes, <<".">>, <<>>)
        p0 == <<>>
        p1 == IF Truthy(self.parts.element)
              THEN Append(p0, toString(self.parts.element)) ELSE p0
        p2 == IF Truthy(self.parts.id)
              THEN Append(p1, <<"#">> \o toString(self.parts.id)) ELSE p1
        p3 == p2 \o dotted
        p4 == p3 \o map(self.parts.attributes, <<"[">>, <<"]">>)
        p5 == p4 \o map(self.parts.pseudoClasses, <<":">>, <<>>)
        p6 == p5 \o map(self.parts.pseudoElements, <<":", ":">>, <<>>)
    IN  [ret |-> join(p6), self |-> [self EXCEPT !.parts.classes = dotted]]

\* stringify collects into a local array and joins it; ret is the string
\* returned and self the instance as the call leaves it.
stringify(self) ==
    LET p0 == <<>>
        p1 == IF Truthy(self.parts.element)
              THEN Append(p0, toString(self.parts.element)) ELSE p0
        p2 == IF Truthy(self.parts.id)
              THEN Append(p1, <<"#">> \o toString(self.parts.id)) ELSE p1
        p3 == p2 \o map(self.parts.classes, <<".">>, <<>>)
        p4 == p3 \o map(self.parts.attributes, <<"[">>, <<"]">>)
        p5 == p4 \o map(self.parts.pseudoClasses, <<":">>, <<>>)
        p6 == p5 \o map(self.parts.pseudoElements, <<":", ":">>, <<>>)
    IN  [ret |-> join(p6), self |-> self]

(***************************************************************************)
(* const cssSelectorBuilder                                                *)
(***************************************************************************)
builderElement(value) == element(constructor, value)

\* Mutant of the id entry point: it calls element (a copy of the entry above).
builderIdCallsElement(value) == element(constructor, value)

builderId(value) == id(constructor, value)

builderClass(value) == class(constructor, value)

builderAttr(value) == attr(constructor, value)

builderPseudoClass(value) == pseudoClass(constructor, value)

builderPseudoElement(value) == pseudoElement(constructor, value)

\* Mutant of combine: the template literal has no spaces around the combinator.
combineNoSpaces(selector1, combinator, selector2) ==
    LET combined == constructor
    IN  Return([combined EXCEPT !.parts.element =
                   Str(stringify(selector1).ret \o combinator \o stringify(selector2).ret)])

\* Mutant of combine: the combined string is set through the element method.
combineViaElement(selector1, combinator, selector2) ==
    element(constructor,
            stringify(selector1).ret \o <<" ">> \o combinator \o <<" ">>
                \o stringify(selector2).ret)

combine(selector1, combinator, selector2) ==
    LET combined == constructor
    IN  Return([combined EXCEPT !.parts.element =
                   Str(stringify(selector1).ret \o <<" ">> \o combinator \o <<" ">>
                       \o stringify(selector2).ret)])

(***************************************************************************)
(* The state machine: a caller of the exported cssSelectorBuilder, holding *)
(* references to the instances returned so far and calling the factory,    *)
(* the methods and combine in any order.                                   *)
(***************************************************************************)
RECURSIVE SumLen(_)
SumLen(s) == IF s = <<>> THEN 0 ELSE Len(Head(s)) + SumLen(Tail(s))

\* The accepted appends over all instances (a factory call makes one).
TotalAppends == SumLen(log)

\* The instances made by combine.
Combined == Cardinality({i \in DOMAIN origin : origin[i] = "combine"})

Budget == TotalAppends + Combined < MaxCalls

Instances == DOMAIN heap

NoCall ==
    [op |-> "none", self |-> 0, part |-> "", value |-> <<>>, thrown |-> "none",
     ret |-> <<>>, left |-> 0, right |-> 0]

\* The module is loaded: no instance exists (the class itself is not exported).
NoInstances ==
    /\ heap = << >>
    /\ origin = << >>
    /\ log = << >>
    /\ last = NoCall

\* No standalone function is being called.
NoFunctionCall ==
    /\ input = << >>
    /\ pc = "idle"
    /\ acc = << >>
    /\ result = << >>

Init == NoInstances /\ NoFunctionCall

\* A factory entry point: r is the outcome of new CSSSelector().<part>(value).
\* The new instance reaches the caller only when the call returns.
Factory(part, value, r) ==
    /\ Budget
    /\ UNCHANGED callVars
    /\ IF r.thrown = "none"
       THEN /\ heap' = Append(heap, r.self)
            /\ origin' = Append(origin, "factory")
            /\ log' = Append(log, << [part |-> part, value |-> value] >>)
            /\ last' = [NoCall EXCEPT !.op = "factory", !.self = Len(heap) + 1,
                                      !.part = part]
       ELSE /\ UNCHANGED <<heap, origin, log>>
            /\ last' = [NoCall EXCEPT !.op = "factory", !.part = part,
                                      !.thrown = r.thrown]

\* Mutant of Call: the classes array is one array shared by every instance
\* (a default object copied shallowly by the constructor).
CallSharedClasses(i, part, value, r) ==
    /\ r.thrown = "none" => Budget
    /\ UNCHANGED callVars
    /\ heap' = [k \in DOMAIN heap |->
                  IF k = i THEN r.self
                  ELSE [heap[k] EXCEPT !.parts.classes = r.self.parts.classes]]
    /\ origin' = origin
    /\ log' = IF r.thrown = "none"
              THEN [log EXCEPT ![i] = Append(@, [part |-> part, value |-> value])]
              ELSE log
    /\ last' = [NoCall EXCEPT !.op = "call", !.self = i, !.part = part,
                              !.thrown = r.thrown]

\* A method call on instance i: r is the outcome of heap[i].<part>(value).
\* The value of an accepted append is kept in log.
Call(i, part, value, r) ==
    /\ r.thrown = "none" => Budget
    /\ UNCHANGED callVars
    /\ heap' = [heap EXCEPT ![i] = r.self]
    /\ origin' = origin
    /\ log' = IF r.thrown = "none"
              THEN [log EXCEPT ![i] = Append(@, [part |-> part, value |-> value])]
              ELSE log
    /\ last' = [NoCall EXCEPT !.op = "call", !.self = i, !.part = part,
                              !.thrown = r.thrown]

FactoryElement == \E v \in Values : Factory("element", v, builderElement(v))

FactoryId == \E v \in Values : Factory("id", v, builderId(v))

FactoryClass == \E v \in ListValues : Factory("classes", v, builderClass(v))

FactoryAttr == \E v \in ListValues : Factory("attributes", v, builderAttr(v))

FactoryPseudoClass ==
    \E v \in ListValues : Factory("pseudoClasses", v, builderPseudoClass(v))

FactoryPseudoElement ==
    \E v \in Values : Factory("pseudoElements", v, builderPseudoElement(v))

CallElement == \E i \in Instances, v \in Values : Call(i, "element", v, element(heap[i], v))

CallId == \E i \in Instances, v \in Values : Call(i, "id", v, id(heap[i], v))

CallClass ==
    \E i \in Instances, v \in ListValues : Call(i, "classes", v, class(heap[i], v))

CallAttr ==
    \E i \in Instances, v \in ListValues : Call(i, "attributes", v, attr(heap[i], v))

CallPseudoClass ==
    \E i \in Instances, v \in ListValues :
        Call(i, "pseudoClasses", v, pseudoClass(heap[i], v))

CallPseudoElement ==
    \E i \in Instances, v \in Values :
        Call(i, "pseudoElements", v, pseudoElement(heap[i], v))

CallStringify ==
    \E i \in Instances :
        LET r == stringify(heap[i])
        IN  /\ heap' = [heap EXCEPT ![i] = r.self]
            /\ UNCHANGED <<origin, log>>
            /\ UNCHANGED callVars
            /\ last' = [NoCall EXCEPT !.op = "stringify", !.self = i, !.ret = r.ret]

\* combine calls stringify() on both operands, selector1 first: they are
\* left as these calls leave them.
Combine ==
    \E i \in Instances, j \in Instances, c \in Combinators :
        LET r == combine(heap[i], c, heap[j])
            h1 == [heap EXCEPT ![i] = stringify(heap[i]).self]
            h2 == [h1 EXCEPT ![j] = stringify(h1[j]).self]
        IN  /\ Budget
            /\ UNCHANGED callVars
            /\ heap' = Append(h2, r.self)
            /\ origin' = Append(origin, "combine")
            /\ log' = Append(log, <<>>)
            /\ last' = [NoCall EXCEPT !.op = "combine", !.self = Len(heap) + 1,
                                      !.value = c, !.left = i, !.right = j]

Next ==
    \/ FactoryElement
    \/ FactoryId
    \/ FactoryClass
    \/ FactoryAttr
    \/ FactoryPseudoClass
    \/ FactoryPseudoElement
    \/ CallElement
    \/ CallId
    \/ CallClass
    \/ CallAttr
    \/ CallPseudoClass
    \/ CallPseudoElement
    \/ CallStringify
    \/ Combine

Spec == Init /\ [][Next]_vars


(***************************************************************************)
(* function sellTickets(queue)                                             *)
(*                                                                         *)
(* queue.every(callback) calls the callback on the bills in order, stops   *)
(* at the first false and returns true when it reaches the end.  acc holds *)
(* the closure variable change and the index every has reached.            *)
(***************************************************************************)
MaxQueue == 4

\* The bills customers pay with.
Bills == {25, 50, 100}

Queues == UNION { [1..n -> Bills] : n \in 0..MaxQueue }

\* The callback of every: ok is what it returns, change the closure
\* variable as it leaves it.
sellTicketsCallback(change, bill) ==
    IF bill = 25 THEN [ok |-> TRUE, change |-> change + 25]
    ELSE IF bill = 50
         THEN IF change < 25 THEN [ok |-> FALSE, change |-> change]
              ELSE [ok |-> TRUE, change |-> change - 25]
    ELSE IF bill = 100
         THEN IF change < 75 THEN [ok |-> FALSE, change |-> change]
              ELSE [ok |-> TRUE, change |-> change - 75]
    ELSE [ok |-> FALSE, change |-> change]

InitTickets ==
    /\ NoInstances
    /\ input \in Queues
    /\ pc = "run"
    /\ acc = [change |-> 0, index |-> 1]
    /\ result = << >>

\* every calls the callback on the next bill.
SellTicketsBill ==
    /\ pc = "run"
    /\ acc.index <= Len(input)
    /\ LET r == sellTicketsCallback(acc.change, input[acc.index])
       IN  IF r.ok
           THEN /\ acc' = [change |-> r.change, index |-> acc.index + 1]
                /\ UNCHANGED <<pc, result>>
           ELSE /\ acc' = [acc EXCEPT !.change = r.change]
                /\ pc' = "done"
                /\ result' = FALSE
    /\ UNCHANGED <<input, builderVars>>

\* every has reached the end of the queue.
SellTicketsReturn ==
    /\ pc = "run"
    /\ acc.index > Len(input)
    /\ pc' = "done"
    /\ result' = TRUE
    /\ UNCHANGED <<input, acc, builderVars>>

NextTickets ==
    \/ SellTicketsBill
    \/ SellTicketsReturn

SpecTickets == InitTickets /\ [][NextTickets]_vars

(***************************************************************************)
(* Flat objects.  An object is the sequence of its own enumerable          *)
(* properties, [key, value], in the order Object.entries and               *)
(* JSON.stringify enumerate them: for keys that are not array indices,     *)
(* the order in which they were inserted.                                  *)
(***************************************************************************)
\* The property names and the numbers of the objects passed.
Keys == {"a", "b"}

Numbers == {1, 2}

Properties == [key : Keys, value : Numbers]

\* The objects over Keys and Numbers, in every insertion order.
Objects ==
    { o \in UNION { [1..n -> Properties] : n \in 0..Cardinality(Keys) } :
        \A k, l \in DOMAIN o : k # l => o[k].key # o[l].key }

RECURSIVE numberToString(_)
\* Number.prototype.toString of a natural number: its decimal digits.
numberToString(n) ==
    LET digits == <<"0", "1", "2", "3", "4", "5", "6", "7", "8", "9">>
    IN  IF n < 10 THEN << digits[n + 1] >>
        ELSE numberToString(n \div 10) \o << digits[(n % 10) + 1] >>

RECURSIVE joinWith(_, _)
\* Array.prototype.join(sep), on an array of strings.
joinWith(arr, sep) ==
    IF arr = << >> THEN << >>
    ELSE IF Len(arr) = 1 THEN Head(arr)
    ELSE Head(arr) \o sep \o joinWith(Tail(arr), sep)

\* JSON.stringify of a flat object with number values: {"key":value,...},
\* the properties in enumeration order.
JSONstringify(obj) ==
    <<"{">>
        \o joinWith([k \in DOMAIN obj |->
                        <<"\"", obj[k].key, "\"", ":">> \o numberToString(obj[k].value)],
                    <<",">>)
        \o <<"}">>

(***************************************************************************)
(* function compareObjects(obj1, obj2)                                     *)
(***************************************************************************)
compareObjects(obj1, obj2) == JSONstringify(obj1) = JSONstringify(obj2)

InitCompare ==
    /\ NoInstances
    /\ input \in Objects \X Objects
    /\ pc = "run"
    /\ acc = << >>
    /\ result = << >>

CompareObjects ==
    /\ pc = "run"
    /\ pc' = "done"
    /\ result' = compareObjects(input[1], input[2])
    /\ UNCHANGED <<input, acc, builderVars>>

NextCompare == CompareObjects

SpecCompare == InitCompare /\ [][NextCompare]_vars

(***************************************************************************)
(* function mergeObjects(objects)                                          *)
(*                                                                         *)
(* objects.reduce(callback, []) calls the callback on the objects in       *)
(* order; the accumulator is an array of [key, value] pairs, made into an  *)
(* object by Object.fromEntries at the end.  acc holds the accumulator     *)
(* (entries), the index reduce has reached and the objects of the array as *)
(* the calls leave them.                                                   *)
(***************************************************************************)
MaxObjects == 2

ObjectArrays == UNION { [1..n -> Objects] : n \in 0..MaxObjects }

\* acc.findIndex(([k]) => k === key): the first index, 0 for JavaScript's -1.
\* acc.find returns a pair (truthy) exactly when this index exists.
findIndex(entries, key) ==
    IF \E k \in DOMAIN entries : entries[k].key = key
    THEN CHOOSE k \in DOMAIN entries :
             /\ entries[k].key = key
             /\ \A l \in DOMAIN entries : entries[l].key = key => k <= l
    ELSE 0

\* typeof value === 'number': the values of the model are all numbers.
typeofNumber(value) == value \in Nat

\* Mutant of mergeEntry: the value is assigned (=) instead of added (+=).
mergeEntryAssigns(entries, entry) ==
    IF findIndex(entries, entry.key) # 0 /\ typeofNumber(entry.value)
    THEN [entries EXCEPT ![findIndex(entries, entry.key)].value = entry.value]
    ELSE Append(entries, entry)

\* The callback of forEach, on one [key, value] pair of Object.entries(obj).
mergeEntry(entries, entry) ==
    IF findIndex(entries, entry.key) # 0 /\ typeofNumber(entry.value)
    THEN [entries EXCEPT ![findIndex(entries, entry.key)].value = @ + entry.value]
    ELSE Append(entries, entry)

RECURSIVE forEachEntry(_, _)
\* Object.entries(obj).forEach(callback): the pairs are new arrays, so the
\* pairs pushed to the accumulator are no part of obj.
forEachEntry(entries, pairs) ==
    IF pairs = << >> THEN entries
    ELSE forEachEntry(mergeEntry(entries, Head(pairs)), Tail(pairs))

\* The callback of reduce: the accumulator it returns and obj as it leaves it.
mergeCallback(entries, obj) == [acc |-> forEachEntry(entries, obj), obj |-> obj]

RECURSIVE fromEntries(_, _)
\* Object.fromEntries: a pair whose key is already set replaces the value and
\* keeps the key's place.
fromEntries(obj, entries) ==
    IF entries = << >> THEN obj
    ELSE LET e == Head(entries)
             at == findIndex(obj, e.key)
         IN  fromEntries(IF at # 0 THEN [obj EXCEPT ![at].value = e.value]
                         ELSE Append(obj, e),
                         Tail(entries))

InitMerge ==
    /\ NoInstances
    /\ input \in ObjectArrays
    /\ pc = "run"
    /\ acc = [entries |-> << >>, index |-> 1, objects |-> input]
    /\ result = << >>

\* reduce calls the callback on the next object.
MergeObject ==
    /\ pc = "run"
    /\ acc.index <= Len(acc.objects)
    /\ LET r == mergeCallback(acc.entries, acc.objects[acc.index])
       IN  acc' = [entries |-> r.acc, index |-> acc.index + 1,
                   objects |-> [acc.objects EXCEPT ![acc.index] = r.obj]]
    /\ UNCHANGED <<input, pc, result, builderVars>>

\* reduce has reached the end of the array: Object.fromEntries(acc).
MergeReturn ==
    /\ pc = "run"
    /\ acc.index > Len(acc.objects)
    /\ pc' = "done"
    /\ result' = fromEntries(<< >>, acc.entries)
    /\ UNCHANGED <<input, acc, builderVars>>

NextMerge ==
    \/ MergeObject
    \/ MergeReturn

SpecMerge == InitMerge /\ [][NextMerge]_vars

(***************************************************************************)
(* The claims.  The statements below are about the observed calls: last    *)
(* is the most recent call and log[i] the appends accepted on instance i.  *)
(***************************************************************************)

\* The category ranks as the specification states them.
CategoryRank ==
    [element |-> 1, id |-> 2, classes |-> 3, attributes |-> 4,
     pseudoClasses |-> 5, pseudoElements |-> 6]

\* The appends accepted on the instance of the last call before that call.
Prior ==
    IF last.op = "call" /\ last.thrown = "none"
    THEN SubSeq(log[last.self], 1, Len(log[last.self]) - 1)
    ELSE log[last.self]

\* The fragments of one category in a log, each wrapped, in append order.
Fragments(lg, part, pre, post) ==
    LET OfPart(e) == e.part = part
        sel == SelectSeq(lg, OfPart)
    IN  join([k \in DOMAIN sel |-> pre \o sel[k].value \o post])

\* The rendering rule of the specification, applied to the accepted appends.
Rendering(lg) ==
    Fragments(lg, "element", <<>>, <<>>)
        \o Fragments(lg, "id", <<"#">>, <<>>)
        \o Fragments(lg, "classes", <<".">>, <<>>)
        \o Fragments(lg, "attributes", <<"[">>, <<"]">>)
        \o Fragments(lg, "pseudoClasses", <<":">>, <<>>)
        \o Fragments(lg, "pseudoElements", <<":", ":">>, <<>>)

HasPart(lg, part) == \E k \in DOMAIN lg : lg[k].part = part

\* C1: on a builder made by accepted appends only, stringify() returns the
\* element, '#'+id, '.'+each class, '['+each attribute+']', ':'+each
\* pseudo-class and '::'+each pseudo-element of the accepted appends, in this
\* order, for every fragment value, the empty string included.
C1_RenderIsConcatenation ==
    (last.op = "stringify" /\ origin[last.self] = "factory")
        => last.ret = Rendering(log[last.self])

\* C2: an append whose category rank is lower than that of the most recently
\* accepted append on the instance fails, and an append of equal or higher
\* rank is not rejected by the order check.
C2_OrderCheck ==
    (last.op = "call" /\ Prior # <<>>)
        => LET prev == Prior[Len(Prior)].part
           IN  /\ CategoryRank[last.part] < CategoryRank[prev] => last.thrown # "none"
               /\ CategoryRank[last.part] >= CategoryRank[prev] => last.thrown # "order"

\* C2's case: class after pseudoClass raises the order error.
C2_Witness ==
    /\ last.op = "call"
    /\ last.part = "classes"
    /\ last.thrown = "order"
    /\ Prior[Len(Prior)].part = "pseudoClasses"

\* C3: a second append of id, or of element, on one instance fails with the
\* duplicate-fragment error, whatever was passed to the first and whatever
\* was appended in between.
C3_SecondSingletonIsDuplicate ==
    (last.op = "call" /\ last.part \in {"element", "id"} /\ HasPart(Prior, last.part))
        => last.thrown = "duplicate"

\* C4: every instance's pseudoElements holds at most one entry, and a second
\* pseudoElement append on an instance fails, whatever the values.
C4_AtMostOnePseudoElement ==
    /\ \A i \in Instances : Len(heap[i].parts.pseudoElements) <= 1
    /\ (last.op = "call" /\ last.part = "pseudoElements"
            /\ HasPart(Prior, "pseudoElements"))
        => last.thrown # "none"

\* C4's case: a second pseudoElement append after pseudoElement('') fails.
C4_Witness ==
    /\ last.op = "call"
    /\ last.part = "pseudoElements"
    /\ last.thrown = "duplicate"
    /\ heap[last.self].parts.pseudoElements = << <<>> >>

\* C5: a failed append leaves every instance, the history included, as it
\* was, so stringify() returns what it returned before the call.
C5_FailedAppendChangesNothing ==
    [][(last'.op \in {"call", "factory"} /\ last'.thrown # "none")
          => /\ heap' = heap
             /\ log' = log
             /\ last'.self \in Instances
                    => stringify(heap'[last'.self]).ret = stringify(heap[last'.self]).ret]_vars

\* C5's case: an append was rejected by the order check on a builder that
\* holds fragments.
C5_Witness ==
    /\ last.op = "call"
    /\ last.thrown = "order"
    /\ Len(heap[last.self].order) >= 2

\* C6: combine(left, s, right) returns a new selector whose stringify() is
\* left.stringify() + ' ' + s + ' ' + right.stringify(); combine(class 'a',
\* '>', id 'a') renders to '.a > #a'.
C6_CombineRendering ==
    last.op = "combine"
        => /\ last.self = Len(heap)
           /\ stringify(heap[last.self]).ret =
                  stringify(heap[last.left]).ret \o <<" ">> \o last.value \o <<" ">>
                      \o stringify(heap[last.right]).ret
           /\ (/\ origin[last.left] = "factory"
               /\ origin[last.right] = "factory"
               /\ log[last.left] = << [part |-> "classes", value |-> <<"a">>] >>
               /\ log[last.right] = << [part |-> "id", value |-> <<"a">>] >>
               /\ last.value = <<">">>)
                  => stringify(heap[last.self]).ret =
                         <<".", "a", " ", ">", " ", "#", "a">>

\* C6's case: combine(class 'a', '>', id 'a') was called.
C6_Witness ==
    /\ last.op = "combine"
    /\ origin[last.left] = "factory"
    /\ origin[last.right] = "factory"
    /\ log[last.left] = << [part |-> "classes", value |-> <<"a">>] >>
    /\ log[last.right] = << [part |-> "id", value |-> <<"a">>] >>

\* C7: on a selector returned by combine, every id, class, attr, pseudoClass
\* and pseudoElement append fails the order check.
C7_CombinedRejectsHigherCategories ==
    (last.op = "call" /\ origin[last.self] = "combine" /\ last.part # "element")
        => last.thrown = "order"

\* C8 as stated: a selector returned by combine has exactly one history entry,
\* of category element, and accepts a further element append.
C8_CombinedAcceptsElement ==
    /\ last.op = "combine" => heap[last.self].order = << "element" >>
    /\ (last.op = "call" /\ origin[last.self] = "combine" /\ last.part = "element")
        => last.thrown = "none"

\* C8 as amended: a selector returned by combine has an empty history, and a
\* further element append on it fails with the duplicate-fragment error.
C8_CombinedRejectsElement ==
    /\ last.op = "combine" => heap[last.self].order = << >>
    /\ (last.op = "call" /\ origin[last.self] = "combine" /\ last.part = "element")
        => last.thrown = "duplicate"

\* C8's case: element was called on a selector returned by combine.
C8_Witness ==
    /\ last.op = "call"
    /\ origin[last.self] = "combine"
    /\ last.part = "element"
    /\ last.thrown = "duplicate"
    /\ heap[last.self].order = << >>

\* The state of a builder holding one fragment and its category.
SingleFragment(part, value) ==
    [parts |->
        [element |-> IF part = "element" THEN Str(value) ELSE Null,
         id |-> IF part = "id" THEN Str(value) ELSE Null,
         classes |-> IF part = "classes" THEN <<value>> ELSE <<>>,
         attributes |-> IF part = "attributes" THEN <<value>> ELSE <<>>,
         pseudoClasses |-> IF part = "pseudoClasses" THEN <<value>> ELSE <<>>,
         pseudoElements |-> IF part = "pseudoElements" THEN <<value>> ELSE <<>>],
     order |-> <<part>>]

\* C9: a factory entry point never fails and returns a new builder that
\* holds exactly the one fragment, in the matching category, and whose
\* history holds exactly that category.
C9_FactoryReturnsSingleFragment ==
    last.op = "factory"
        => /\ last.thrown = "none"
           /\ last.self = Len(heap)
           /\ Len(log[last.self]) = 1
           /\ log[last.self][1].part = last.part
           /\ heap[last.self] = SingleFragment(last.part, log[last.self][1].value)

\* C9's case: the id entry point was called with the empty string.
C9_Witness ==
    /\ last.op = "factory"
    /\ last.part = "id"
    /\ log[last.self][1].value = <<>>

\* C10: stringify() leaves every instance and its history as they were, and
\* two consecutive calls on an instance return the same string.
C10_StringifyChangesNothing ==
    [][last'.op = "stringify"
          => /\ heap' = heap
             /\ log' = log
             /\ (last.op = "stringify" /\ last.self = last'.self)
                    => last'.ret = last.ret]_vars

\* C10's case: stringify() was called on a builder holding classes and
\* returned a non-empty string.
C10_Witness ==
    /\ last.op = "stringify"
    /\ last.ret # <<>>
    /\ heap[last.self].parts.classes # <<>>

\* C11: an append, accepted or rejected, changes no other instance; a
\* factory call and combine change no instance that existed, the operands of
\* combine included; and an append to any instance leaves the rendering of
\* every selector returned by combine as it was.
C11_NoSharedState ==
    [][/\ last'.op = "call"
            => \A k \in Instances \ {last'.self} :
                   /\ heap'[k] = heap[k]
                   /\ origin[k] = "combine"
                          => stringify(heap'[k]).ret = stringify(heap[k]).ret
       /\ last'.op \in {"factory", "combine"}
            => \A k \in Instances : heap'[k] = heap[k]]_vars

\* C11's case: an append was accepted on a selector after it was an operand
\* of combine (the combined selector is a later instance).
C11_Witness ==
    /\ last.op = "call"
    /\ last.thrown = "none"
    /\ origin[last.self] = "factory"
    /\ \E k \in Instances : k > last.self /\ origin[k] = "combine"

RECURSIVE CanGiveChange(_, _, _)
\* Whether a seller holding n25 bills of 25 and n50 bills of 50 can serve the
\* queue in order, giving each customer the bill minus 25 out of the bills
\* held (75 is 50 + 25 or three bills of 25; a bill of 100 is no change).
CanGiveChange(queue, n25, n50) ==
    IF queue = << >> THEN TRUE
    ELSE IF Head(queue) = 25 THEN CanGiveChange(Tail(queue), n25 + 1, n50)
    ELSE IF Head(queue) = 50
         THEN n25 >= 1 /\ CanGiveChange(Tail(queue), n25 - 1, n50 + 1)
    ELSE \/ n50 >= 1 /\ n25 >= 1 /\ CanGiveChange(Tail(queue), n25 - 1, n50 - 1)
         \/ n25 >= 3 /\ CanGiveChange(Tail(queue), n25 - 3, n50)

\* C12: for a queue of bills of 25, 50 and 100, sellTickets returns true
\* exactly when a seller who starts with no money and keeps every bill can
\* give every customer, in queue order, exact change out of the bills held.
C12_SellTicketsIsExactChange ==
    pc = "done" => (result <=> CanGiveChange(input, 0, 0))

\* The keys of an object, and the value under a key.
KeysOf(obj) == { obj[k].key : k \in DOMAIN obj }

ValueOf(obj, key) == obj[CHOOSE k \in DOMAIN obj : obj[k].key = key].value

\* C13: for flat objects, whatever the order in which their keys were
\* inserted, compareObjects returns true exactly when both have the same
\* keys and the same value under every key.
C13_CompareObjectsIsEquality ==
    pc = "done"
        => (result <=> /\ KeysOf(input[1]) = KeysOf(input[2])
                       /\ \A key \in KeysOf(input[1]) :
                              ValueOf(input[1], key) = ValueOf(input[2], key))

RECURSIVE SumOfKey(_, _)
\* The sum of the values under key over the objects that contain it.
SumOfKey(objects, key) ==
    IF objects = << >> THEN 0
    ELSE (IF key \in KeysOf(Head(objects)) THEN ValueOf(Head(objects), key) ELSE 0)
             + SumOfKey(Tail(objects), key)

\* C14: for objects whose values are numbers, mergeObjects returns an object
\* whose keys are the union of the objects' keys, each with the sum of its
\* values over the objects containing it; mergeObjects([]) is the empty
\* object, and no object of the array is modified.
C14_MergeObjectsSums ==
    /\ pc # "idle" => acc.objects = input
    /\ pc = "done"
        => /\ KeysOf(result) = UNION { KeysOf(input[k]) : k \in DOMAIN input }
           /\ Len(result) = Cardinality(KeysOf(result))
           /\ \A key \in KeysOf(result) : ValueOf(result, key) = SumOfKey(input, key)
           /\ input = << >> => result = << >>

\* C14's case: two objects with a key in common were merged.
C14_Witness ==
    /\ pc = "done"
    /\ Len(input) = 2
    /\ KeysOf(input[1]) \cap KeysOf(input[2]) # {}
    /\ KeysOf(input[1]) # KeysOf(input[2])

\* C15: an element, id or pseudoElement append that repeats a fragment
\* already appended and is lower in rank than the most recently accepted
\* append fails with the duplicate-fragment error, not the order error.
C15_DuplicateBeforeOrder ==
    (/\ last.op = "call"
     /\ last.part \in {"element", "id", "pseudoElements"}
     /\ HasPart(Prior, last.part)
     /\ CategoryRank[last.part] < CategoryRank[Prior[Len(Prior)].part])
        => last.thrown = "duplicate"

\* C16: the history of every instance is non-decreasing in category rank, and
\* an append is rejected by the order check only if, and fails whenever, a
\* fragment appended before has a strictly greater rank.
C16_HistoryNonDecreasing ==
    /\ \A i \in Instances :
           \A k \in 1..(Len(heap[i].order) - 1) :
               CategoryRank[heap[i].order[k]] <= CategoryRank[heap[i].order[k + 1]]
    /\ last.op = "call"
        => LET greater == \E k \in DOMAIN Prior :
                              CategoryRank[Prior[k].part] > CategoryRank[last.part]
           IN  /\ greater => last.thrown # "none"
               /\ last.thrown = "order" => greater

\* C16's case: an append was rejected by the order check with a rank between
\* those of the first and the last entry of the history.
C16_Witness ==
    /\ last.op = "call"
    /\ last.thrown = "order"
    /\ Len(heap[last.self].order) >= 2
    /\ CategoryRank[heap[last.self].order[1]] < CategoryRank[last.part]

\* The fragments stored in parts: one for element and one for id when set,
\* and the entries of the four arrays.
FragmentCount(parts) ==
    (IF parts.element # Null THEN 1 ELSE 0) + (IF parts.id # Null THEN 1 ELSE 0)
        + Len(parts.classes) + Len(parts.attributes) + Len(parts.pseudoClasses)
        + Len(parts.pseudoElements)

\* C17: on a builder made by accepted appends only, the history is as long as
\* the number of fragments stored in parts, and its entries are the categories
\* of the accepted appends in call order.
C17_HistoryMatchesParts ==
    \A i \in Instances :
        origin[i] = "factory"
            => /\ Len(heap[i].order) = FragmentCount(heap[i].parts)
               /\ heap[i].order = [k \in DOMAIN log[i] |-> log[i][k].part]

=============================================================================
